---- MODULE Spec2Model ----
(***************************************************************************)
(* The Status response value of express-http-status-handler and its        *)
(* populating operations (src/src/status.ts), with the StatusCode /        *)
(* StatusMessages catalog (http.status.ts).                                *)
(*                                                                         *)
(* JavaScript values that reach the message and payload fields are encoded *)
(* as TLA+ strings: a JS string is the string itself ("" is the empty JS   *)
(* string), every other JS value is a bracketed token such as "<null>" or  *)
(* "<{id:1}>".  A JS object (options, err) is a record whose DOMAIN is the *)
(* set of properties it has; reading a missing property gives UNDEFINED.   *)
(***************************************************************************)
EXTENDS Integers, Sequences, FiniteSets, TLC

VARIABLES
    status,     \* the Status instance of the handler under study
    last,       \* the most recent call made on it, with its arguments
    edits,      \* entries of StatusMessages overwritten since the module loaded
    heap,       \* the Status instances concurrent handlers have allocated
    held,       \* the instance each such handler holds
    solo        \* what each handler's own calls alone produce

vars == <<status, last, edits, heap, held, solo>>

UNDEFINED == "<undefined>"

NULL == "<null>"

\* The tokens that stand for JS values other than strings.
NonStrings ==
    {UNDEFINED, NULL, "<0>", "<NaN>", "<false>", "<{id:1}>", "<{a:1}>", "<Date(0)>"}

\* ECMAScript ToBoolean, as applied by `if (message)` / `if (payload)`.
Falsy == {UNDEFINED, NULL, "<0>", "<NaN>", "<false>", ""}

ToBoolean(v) == v \notin Falsy

\* Property read o[k] on a JS object: UNDEFINED when the property is missing.
Get(o, k) == IF k \in DOMAIN o THEN o[k] ELSE UNDEFINED

(***************************************************************************)
(* The catalog: enum StatusCode and Record<StatusCode, string>.            *)
(***************************************************************************)
StatusCode ==
    [ OK |-> 200,
      CREATED |-> 201,
      ACCEPTED |-> 202,
      NON_AUTHORITATIVE |-> 203,
      NO_CONTENT |-> 204,
      RESET_CONTENT |-> 205,
      PARTIAL_CONTENT |-> 206,
      MULTIPLE_CHOICES |-> 300,
      MOVED_PERMANENTLY |-> 301,
      FOUND |-> 302,
      SEE_OTHER |-> 303,
      NOT_MODIFIED |-> 304,
      TEMPORARY_REDIRECT |-> 307,
      PERMANENT_REDIRECT |-> 308,
      BAD_REQUEST |-> 400,
      UNAUTHORIZED |-> 401,
      PAYMENT_REQUIRED |-> 402,
      FORBIDDEN |-> 403,
      NOT_FOUND |-> 404,
      METHOD_NOT_ALLOWED |-> 405,
      NOT_ACCEPTABLE |-> 406,
      PROXY_AUTH_REQUIRED |-> 407,
      REQUEST_TIMEOUT |-> 408,
      CONFLICT |-> 409,
      GONE |-> 410,
      LENGTH_REQUIRED |-> 411,
      PRECONDITION_FAILED |-> 412,
      PAYLOAD_TOO_LARGE |-> 413,
      URI_TOO_LONG |-> 414,
      UNSUPPORTED_MEDIA_TYPE |-> 415,
      RANGE_NOT_SATISFIABLE |-> 416,
      EXPECTATION_FAILED |-> 417,
      IM_A_TEAPOT |-> 418,
      MISDIRECTED_REQUEST |-> 421,
      UNPROCESSABLE_CONTENT |-> 422,
      LOCKED |-> 423,
      FAILED_DEPENDENCY |-> 424,
      TOO_EARLY |-> 425,
      UPGRADE_REQUIRED |-> 426,
      PRECONDITION_REQUIRED |-> 428,
      TOO_MANY_REQUESTS |-> 429,
      REQUEST_HEADER_FIELDS_TOO_LARGE |-> 431,
      UNAVAILABLE_FOR_LEGAL_REASONS |-> 451,
      INTERNAL_SERVER_ERROR |-> 500,
      NOT_IMPLEMENTED |-> 501,
      BAD_GATEWAY |-> 502,
      SERVICE_UNAVAILABLE |-> 503,
      GATEWAY_TIMEOUT |-> 504,
      HTTP_VERSION_NOT_SUPPORTED |-> 505,
      VARIANT_ALSO_NEGOTIATES |-> 506,
      INSUFFICIENT_STORAGE |-> 507,
      LOOP_DETECTED |-> 508,
      NOT_EXTENDED |-> 510,
      NETWORK_AUTH_REQUIRED |-> 511 ]

StatusMessages ==
    (StatusCode.OK :> "Request succeeded.") @@
    (StatusCode.CREATED :> "Resource created successfully.") @@
    (StatusCode.ACCEPTED :> "Request accepted and is being processed.") @@
    (StatusCode.NON_AUTHORITATIVE :> "Non-authoritative information.") @@
    (StatusCode.RESET_CONTENT :> "Reset content.") @@
    (StatusCode.PARTIAL_CONTENT :> "Partial content delivered.") @@
    (StatusCode.MULTIPLE_CHOICES :> "Multiple choices available.") @@
    (StatusCode.MOVED_PERMANENTLY :> "Resource moved permanently.") @@
    (StatusCode.FOUND :> "Resource found at another location.") @@
    (StatusCode.SEE_OTHER :> "See another resource.") @@
    (StatusCode.NOT_MODIFIED :> "Not modified since last request.") @@
    (StatusCode.TEMPORARY_REDIRECT :> "Temporary redirect.") @@
    (StatusCode.PERMANENT_REDIRECT :> "Permanent redirect.") @@
    (StatusCode.NOT_ACCEPTABLE :> "Not acceptable response format.") @@
    (StatusCode.PROXY_AUTH_REQUIRED :> "Proxy authentication required.") @@
    (StatusCode.LENGTH_REQUIRED :> "Content length header required.") @@
    (StatusCode.PRECONDITION_FAILED :> "Precondition failed.") @@
    (StatusCode.URI_TOO_LONG :> "URI too long.") @@
    (StatusCode.RANGE_NOT_SATISFIABLE :> "Requested range not satisfiable.") @@
    (StatusCode.EXPECTATION_FAILED :> "Expectation failed.") @@
    (StatusCode.IM_A_TEAPOT :> "I'm a teapot.") @@
    (StatusCode.MISDIRECTED_REQUEST :> "Request was misdirected.") @@
    (StatusCode.UNPROCESSABLE_CONTENT :> "Unprocessable content.") @@
    (StatusCode.LOCKED :> "Resource is locked.") @@
    (StatusCode.FAILED_DEPENDENCY :> "Failed dependency.") @@
    (StatusCode.TOO_EARLY :> "Request too early.") @@
    (StatusCode.UPGRADE_REQUIRED :> "Upgrade required.") @@
    (StatusCode.PRECONDITION_REQUIRED :> "Precondition required.") @@
    (StatusCode.REQUEST_HEADER_FIELDS_TOO_LARGE :> "Request header fields too large.") @@
    (StatusCode.UNAVAILABLE_FOR_LEGAL_REASONS :> "Unavailable for legal reasons.") @@
    (StatusCode.HTTP_VERSION_NOT_SUPPORTED :> "HTTP version not supported.") @@
    (StatusCode.VARIANT_ALSO_NEGOTIATES :> "Variant negotiation failed.") @@
    (StatusCode.INSUFFICIENT_STORAGE :> "Insufficient storage.") @@
    (StatusCode.LOOP_DETECTED :> "Loop detected.") @@
    (StatusCode.NOT_EXTENDED :> "Not extended.") @@
    (StatusCode.NETWORK_AUTH_REQUIRED :> "Network authentication required.") @@
    (StatusCode.NO_CONTENT :> "Request succeeded, no content to return.") @@
    (StatusCode.BAD_REQUEST :> "Bad request. Please check your input.") @@
    (StatusCode.UNAUTHORIZED :> "Unauthorized. Please log in.") @@
    (StatusCode.PAYMENT_REQUIRED :> "Payment required.") @@
    (StatusCode.FORBIDDEN :> "Forbidden. You do not have access.") @@
    (StatusCode.NOT_FOUND :> "Resource not found.") @@
    (StatusCode.METHOD_NOT_ALLOWED :> "Method not allowed.") @@
    (StatusCode.REQUEST_TIMEOUT :> "Request timed out.") @@
    (StatusCode.CONFLICT :> "Conflict. This resource already exists or cannot be processed.") @@
    (StatusCode.GONE :> "Resource is gone and will not return.") @@
    (StatusCode.PAYLOAD_TOO_LARGE :> "Request payload too large.") @@
    (StatusCode.UNSUPPORTED_MEDIA_TYPE :> "Unsupported media type.") @@
    (StatusCode.TOO_MANY_REQUESTS :> "Too many requests. Please try again later.") @@
    (StatusCode.INTERNAL_SERVER_ERROR :> "Internal server error.") @@
    (StatusCode.NOT_IMPLEMENTED :> "Feature not implemented.") @@
    (StatusCode.BAD_GATEWAY :> "Bad gateway.") @@
    (StatusCode.SERVICE_UNAVAILABLE :> "Server is currently unavailable or overloaded.") @@
    (StatusCode.GATEWAY_TIMEOUT :> "Server gateway timed out.")

\* The entries of the StatusMessages literal, in the order they are written.
StatusMessageEntries ==
    << <<StatusCode.OK, "Request succeeded.">>,
       <<StatusCode.CREATED, "Resource created successfully.">>,
       <<StatusCode.ACCEPTED, "Request accepted and is being processed.">>,
       <<StatusCode.NON_AUTHORITATIVE, "Non-authoritative information.">>,
       <<StatusCode.RESET_CONTENT, "Reset content.">>,
       <<StatusCode.PARTIAL_CONTENT, "Partial content delivered.">>,
       <<StatusCode.MULTIPLE_CHOICES, "Multiple choices available.">>,
       <<StatusCode.MOVED_PERMANENTLY, "Resource moved permanently.">>,
       <<StatusCode.FOUND, "Resource found at another location.">>,
       <<StatusCode.SEE_OTHER, "See another resource.">>,
       <<StatusCode.NOT_MODIFIED, "Not modified since last request.">>,
       <<StatusCode.TEMPORARY_REDIRECT, "Temporary redirect.">>,
       <<StatusCode.PERMANENT_REDIRECT, "Permanent redirect.">>,
       <<StatusCode.NOT_ACCEPTABLE, "Not acceptable response format.">>,
       <<StatusCode.PROXY_AUTH_REQUIRED, "Proxy authentication required.">>,
       <<StatusCode.LENGTH_REQUIRED, "Content length header required.">>,
       <<StatusCode.PRECONDITION_FAILED, "Precondition failed.">>,
       <<StatusCode.URI_TOO_LONG, "URI too long.">>,
       <<StatusCode.RANGE_NOT_SATISFIABLE, "Requested range not satisfiable.">>,
       <<StatusCode.EXPECTATION_FAILED, "Expectation failed.">>,
       <<StatusCode.IM_A_TEAPOT, "I'm a teapot.">>,
       <<StatusCode.MISDIRECTED_REQUEST, "Request was misdirected.">>,
       <<StatusCode.UNPROCESSABLE_CONTENT, "Unprocessable content.">>,
       <<StatusCode.LOCKED, "Resource is locked.">>,
       <<StatusCode.FAILED_DEPENDENCY, "Failed dependency.">>,
       <<StatusCode.TOO_EARLY, "Request too early.">>,
       <<StatusCode.UPGRADE_REQUIRED, "Upgrade required.">>,
       <<StatusCode.PRECONDITION_REQUIRED, "Precondition required.">>,
       <<StatusCode.REQUEST_HEADER_FIELDS_TOO_LARGE, "Request header fields too large.">>,
       <<StatusCode.UNAVAILABLE_FOR_LEGAL_REASONS, "Unavailable for legal reasons.">>,
       <<StatusCode.HTTP_VERSION_NOT_SUPPORTED, "HTTP version not supported.">>,
       <<StatusCode.VARIANT_ALSO_NEGOTIATES, "Variant negotiation failed.">>,
       <<StatusCode.INSUFFICIENT_STORAGE, "Insufficient storage.">>,
       <<StatusCode.LOOP_DETECTED, "Loop detected.">>,
       <<StatusCode.NOT_EXTENDED, "Not extended.">>,
       <<StatusCode.NETWORK_AUTH_REQUIRED, "Network authentication required.">>,
       <<StatusCode.NO_CONTENT, "Request succeeded, no content to return.">>,
       <<StatusCode.BAD_REQUEST, "Bad request. Please check your input.">>,
       <<StatusCode.UNAUTHORIZED, "Unauthorized. Please log in.">>,
       <<StatusCode.PAYMENT_REQUIRED, "Payment required.">>,
       <<StatusCode.FORBIDDEN, "Forbidden. You do not have access.">>,
       <<StatusCode.NOT_FOUND, "Resource not found.">>,
       <<StatusCode.METHOD_NOT_ALLOWED, "Method not allowed.">>,
       <<StatusCode.REQUEST_TIMEOUT, "Request timed out.">>,
       <<StatusCode.CONFLICT, "Conflict. This resource already exists or cannot be processed.">>,
       <<StatusCode.GONE, "Resource is gone and will not return.">>,
       <<StatusCode.PAYLOAD_TOO_LARGE, "Request payload too large.">>,
       <<StatusCode.UNSUPPORTED_MEDIA_TYPE, "Unsupported media type.">>,
       <<StatusCode.TOO_MANY_REQUESTS, "Too many requests. Please try again later.">>,
       <<StatusCode.INTERNAL_SERVER_ERROR, "Internal server error.">>,
       <<StatusCode.NOT_IMPLEMENTED, "Feature not implemented.">>,
       <<StatusCode.BAD_GATEWAY, "Bad gateway.">>,
       <<StatusCode.SERVICE_UNAVAILABLE, "Server is currently unavailable or overloaded.">>,
       <<StatusCode.GATEWAY_TIMEOUT, "Server gateway timed out.">> >>

\* The compiled catalog (dist/http.status.js).
DistStatusCode ==
    [ OK |-> 200,
      CREATED |-> 201,
      ACCEPTED |-> 202,
      NON_AUTHORITATIVE |-> 203,
      NO_CONTENT |-> 204,
      RESET_CONTENT |-> 205,
      PARTIAL_CONTENT |-> 206,
      MULTIPLE_CHOICES |-> 300,
      MOVED_PERMANENTLY |-> 301,
      FOUND |-> 302,
      SEE_OTHER |-> 303,
      NOT_MODIFIED |-> 304,
      TEMPORARY_REDIRECT |-> 307,
      PERMANENT_REDIRECT |-> 308,
      BAD_REQUEST |-> 400,
      UNAUTHORIZED |-> 401,
      PAYMENT_REQUIRED |-> 402,
      FORBIDDEN |-> 403,
      NOT_FOUND |-> 404,
      METHOD_NOT_ALLOWED |-> 405,
      NOT_ACCEPTABLE |-> 406,
      PROXY_AUTH_REQUIRED |-> 407,
      REQUEST_TIMEOUT |-> 408,
      CONFLICT |-> 409,
      GONE |-> 410,
      LENGTH_REQUIRED |-> 411,
      PRECONDITION_FAILED |-> 412,
      PAYLOAD_TOO_LARGE |-> 413,
      URI_TOO_LONG |-> 414,
      UNSUPPORTED_MEDIA_TYPE |-> 415,
      RANGE_NOT_SATISFIABLE |-> 416,
      EXPECTATION_FAILED |-> 417,
      IM_A_TEAPOT |-> 418,
      MISDIRECTED_REQUEST |-> 421,
      UNPROCESSABLE_CONTENT |-> 422,
      LOCKED |-> 423,
      FAILED_DEPENDENCY |-> 424,
      TOO_EARLY |-> 425,
      UPGRADE_REQUIRED |-> 426,
      PRECONDITION_REQUIRED |-> 428,
      TOO_MANY_REQUESTS |-> 429,
      REQUEST_HEADER_FIELDS_TOO_LARGE |-> 431,
      UNAVAILABLE_FOR_LEGAL_REASONS |-> 451,
      INTERNAL_SERVER_ERROR |-> 500,
      NOT_IMPLEMENTED |-> 501,
      BAD_GATEWAY |-> 502,
      SERVICE_UNAVAILABLE |-> 503,
      GATEWAY_TIMEOUT |-> 504,
      HTTP_VERSION_NOT_SUPPORTED |-> 505,
      VARIANT_ALSO_NEGOTIATES |-> 506,
      INSUFFICIENT_STORAGE |-> 507,
      LOOP_DETECTED |-> 508,
      NOT_EXTENDED |-> 510,
      NETWORK_AUTH_REQUIRED |-> 511 ]

DistStatusMessageEntries ==
    << <<DistStatusCode.OK, "Request succeeded.">>,
       <<DistStatusCode.CREATED, "Resource created successfully.">>,
       <<DistStatusCode.ACCEPTED, "Request accepted and is being processed.">>,
       <<DistStatusCode.NON_AUTHORITATIVE, "Non-authoritative information.">>,
       <<DistStatusCode.RESET_CONTENT, "Reset content.">>,
       <<DistStatusCode.PARTIAL_CONTENT, "Partial content delivered.">>,
       <<DistStatusCode.MULTIPLE_CHOICES, "Multiple choices available.">>,
       <<DistStatusCode.MOVED_PERMANENTLY, "Resource moved permanently.">>,
       <<DistStatusCode.FOUND, "Resource found at another location.">>,
       <<DistStatusCode.SEE_OTHER, "See another resource.">>,
       <<DistStatusCode.NOT_MODIFIED, "Not modified since last request.">>,
       <<DistStatusCode.TEMPORARY_REDIRECT, "Temporary redirect.">>,
       <<DistStatusCode.PERMANENT_REDIRECT, "Permanent redirect.">>,
       <<DistStatusCode.NOT_ACCEPTABLE, "Not acceptable response format.">>,
       <<DistStatusCode.PROXY_AUTH_REQUIRED, "Proxy authentication required.">>,
       <<DistStatusCode.LENGTH_REQUIRED, "Content length header required.">>,
       <<DistStatusCode.PRECONDITION_FAILED, "Precondition failed.">>,
       <<DistStatusCode.URI_TOO_LONG, "URI too long.">>,
       <<DistStatusCode.RANGE_NOT_SATISFIABLE, "Requested range not satisfiable.">>,
       <<DistStatusCode.EXPECTATION_FAILED, "Expectation failed.">>,
       <<DistStatusCode.IM_A_TEAPOT, "I'm a teapot.">>,
       <<DistStatusCode.MISDIRECTED_REQUEST, "Request was misdirected.">>,
       <<DistStatusCode.UNPROCESSABLE_CONTENT, "Unprocessable content.">>,
       <<DistStatusCode.LOCKED, "Resource is locked.">>,
       <<DistStatusCode.FAILED_DEPENDENCY, "Failed dependency.">>,
       <<DistStatusCode.TOO_EARLY, "Request too early.">>,
       <<DistStatusCode.UPGRADE_REQUIRED, "Upgrade required.">>,
       <<DistStatusCode.PRECONDITION_REQUIRED, "Precondition required.">>,
       <<DistStatusCode.REQUEST_HEADER_FIELDS_TOO_LARGE, "Request header fields too large.">>,
       <<DistStatusCode.UNAVAILABLE_FOR_LEGAL_REASONS, "Unavailable for legal reasons.">>,
       <<DistStatusCode.HTTP_VERSION_NOT_SUPPORTED, "HTTP version not supported.">>,
       <<DistStatusCode.VARIANT_ALSO_NEGOTIATES, "Variant negotiation failed.">>,
       <<DistStatusCode.INSUFFICIENT_STORAGE, "Insufficient storage.">>,
       <<DistStatusCode.LOOP_DETECTED, "Loop detected.">>,
       <<DistStatusCode.NOT_EXTENDED, "Not extended.">>,
       <<DistStatusCode.NETWORK_AUTH_REQUIRED, "Network authentication required.">>,
       <<DistStatusCode.NO_CONTENT, "Request succeeded, no content to return.">>,
       <<DistStatusCode.BAD_REQUEST, "Bad request. Please check your input.">>,
       <<DistStatusCode.UNAUTHORIZED, "Unauthorized. Please log in.">>,
       <<DistStatusCode.PAYMENT_REQUIRED, "Payment required.">>,
       <<DistStatusCode.FORBIDDEN, "Forbidden. You do not have access.">>,
       <<DistStatusCode.NOT_FOUND, "Resource not found.">>,
       <<DistStatusCode.METHOD_NOT_ALLOWED, "Method not allowed.">>,
       <<DistStatusCode.REQUEST_TIMEOUT, "Request timed out.">>,
       <<DistStatusCode.CONFLICT, "Conflict. This resource already exists or cannot be processed.">>,
       <<DistStatusCode.GONE, "Resource is gone and will not return.">>,
       <<DistStatusCode.PAYLOAD_TOO_LARGE, "Request payload too large.">>,
       <<DistStatusCode.UNSUPPORTED_MEDIA_TYPE, "Unsupported media type.">>,
       <<DistStatusCode.TOO_MANY_REQUESTS, "Too many requests. Please try again later.">>,
       <<DistStatusCode.INTERNAL_SERVER_ERROR, "Internal server error.">>,
       <<DistStatusCode.NOT_IMPLEMENTED, "Feature not implemented.">>,
       <<DistStatusCode.BAD_GATEWAY, "Bad gateway.">>,
       <<DistStatusCode.SERVICE_UNAVAILABLE, "Server is currently unavailable or overloaded.">>,
       <<DistStatusCode.GATEWAY_TIMEOUT, "Server gateway timed out.">> >>


\* Faulty variant: an enum that has gained a member (103) without a message.
\* The members the README's "Status Codes" section lists, with their values.
ReadmeStatusCodes ==
    [ OK |-> 200,
      CREATED |-> 201,
      BAD_REQUEST |-> 400,
      UNAUTHORIZED |-> 401,
      FORBIDDEN |-> 403,
      NOT_FOUND |-> 404,
      VALIDATION_ERROR |-> 422,
      INTERNAL_SERVER_ERROR |-> 500 ]

StatusCodeValues_extraMember ==
    {StatusCode[n] : n \in DOMAIN StatusCode} \cup {103}

StatusCodeValues == {StatusCode[n] : n \in DOMAIN StatusCode}

\* StatusMessages[c] as JavaScript evaluates it on the object as it is now:
\* the literal's entries with any later assignment on top, UNDEFINED on a
\* missing key.
MessageOf(c) ==
    IF c \in DOMAIN edits THEN edits[c]
    ELSE IF c \in DOMAIN StatusMessages THEN StatusMessages[c] ELSE UNDEFINED

(***************************************************************************)
(* class Status                                                            *)
(***************************************************************************)
\* Faulty variant: a constructor that starts from "200 OK".
constructor_startsOK ==
    [code |-> 200, success |-> TRUE, message |-> "", payload |-> NULL]

\* Faulty variant: a constructor that leaves payload unassigned.
constructor_payloadUnset ==
    [code |-> 400, success |-> FALSE, message |-> "", payload |-> UNDEFINED]

constructor ==
    [code |-> 400, success |-> FALSE, message |-> "", payload |-> NULL]

\* Faulty variant: the merge without its truthiness guards.
set_unguarded(this, options) ==
    [this EXCEPT !.message = Get(options, "message"),
                 !.payload = Get(options, "payload")]

\* Faulty variant: the merge that skips only null and undefined.
set_nullishOnly(this, options) ==
    LET message == Get(options, "message")
        payload == Get(options, "payload")
        s1 == IF message \notin {UNDEFINED, NULL}
                THEN [this EXCEPT !.message = message] ELSE this
    IN  IF payload \notin {UNDEFINED, NULL} THEN [s1 EXCEPT !.payload = payload] ELSE s1

set(this, options) ==
    LET message == Get(options, "message")
        payload == Get(options, "payload")
        s1 == IF ToBoolean(message) THEN [this EXCEPT !.message = message] ELSE this
    IN  IF ToBoolean(payload) THEN [s1 EXCEPT !.payload = payload] ELSE s1

\* Faulty variant: successStatus that forgets `this.success = true`.
successStatus_keepsFlag(this, success, payload) ==
    set([this EXCEPT !.code = success],
        [message |-> MessageOf(success), payload |-> payload])

\* Faulty variant: successStatus that derives the flag from the code's class.
successStatus_flagByRange(this, success, payload) ==
    set([this EXCEPT !.code = success, !.success = (success < 400)],
        [message |-> MessageOf(success), payload |-> payload])

successStatus(this, success, payload) ==
    set([this EXCEPT !.code = success, !.success = TRUE],
        [message |-> MessageOf(success), payload |-> payload])

\* Faulty variant: errorStatus that forgets `this.payload = null`.
errorStatus_keepsPayload(this, error) ==
    set([this EXCEPT !.code = error, !.success = FALSE],
        [message |-> MessageOf(error)])

\* Faulty variant: errorStatus that looks the message up before it has
\* assigned the new code.
errorStatus_staleLookup(this, error) ==
    set([this EXCEPT !.code = error, !.success = FALSE, !.payload = NULL],
        [message |-> MessageOf(this.code)])

\* Faulty variant: errorStatus that falls back to a generic text when the
\* catalog has no entry for the code.
errorStatus_fallbackText(this, error) ==
    LET found == MessageOf(error)
    IN  set([this EXCEPT !.code = error, !.success = FALSE, !.payload = NULL],
            [message |-> IF found = UNDEFINED THEN "Unknown error." ELSE found])

errorStatus(this, error) ==
    set([this EXCEPT !.code = error, !.success = FALSE, !.payload = NULL],
        [message |-> MessageOf(error)])

ERR(error) == errorStatus(constructor, error)

\* Faulty variant: a factory that populates the instance already at hand
\* instead of constructing a new one.
SUCCESS_reusesInstance(success, payload) == successStatus(status, success, payload)

SUCCESS(success, payload) == successStatus(constructor, success, payload)

\* Faulty variant: error that replaces a code outside 100..599 by 500.
error_clampsCode(this, err) ==
    set([this EXCEPT !.code = IF err.code \in 100..599 THEN err.code ELSE 500,
                     !.success = FALSE, !.payload = NULL],
        [message |-> Get(err, "message")])

\* Faulty variant: error that forgets `this.code = err.code`.
error_keepsCode(this, err) ==
    set([this EXCEPT !.success = FALSE, !.payload = NULL],
        [message |-> Get(err, "message")])

error(this, err) ==
    set([this EXCEPT !.code = err.code, !.success = FALSE, !.payload = NULL],
        [message |-> Get(err, "message")])

\* Faulty variant: successOK that resets message and payload before merging.
successOK_fromDefaults(this, options) ==
    set([constructor EXCEPT !.code = StatusCode.OK, !.success = TRUE], options)

\* Faulty variant: successOK that copies every field options carries.
successOK_copiesAllFields(this, options) ==
    LET merged == set([this EXCEPT !.code = StatusCode.OK, !.success = TRUE], options)
    IN  [merged EXCEPT !.code = IF "code" \in DOMAIN options THEN options.code ELSE @,
                       !.success = IF "success" \in DOMAIN options THEN options.success ELSE @]

successOK(this, options) ==
    set([this EXCEPT !.code = StatusCode.OK, !.success = TRUE], options)

\* Faulty variant: genericError that prefers a code the error carries.
genericError_ownCode(this, err) ==
    set([this EXCEPT !.code = IF "code" \in DOMAIN err
                                THEN err.code ELSE StatusCode.INTERNAL_SERVER_ERROR,
                     !.success = FALSE, !.payload = NULL],
        [message |-> Get(err, "message")])

genericError(this, err) ==
    set([this EXCEPT !.code = StatusCode.INTERNAL_SERVER_ERROR,
                     !.success = FALSE, !.payload = NULL],
        [message |-> Get(err, "message")])

(***************************************************************************)
(* Calls that hand null or undefined where an object is read.  Reading a   *)
(* property of null/undefined raises a TypeError; each operator gives the  *)
(* state the instance is left in when the exception leaves the method.     *)
(***************************************************************************)
Nullish == {UNDEFINED, NULL}

\* error(err): `this.code = err.code` throws before anything is assigned.
errorOnNullish(this) == this

\* successOK(options): code and success are assigned, then set()'s parameter
\* destructuring `{ message, payload }` throws.
successOKOnNullish(this) ==
    [this EXCEPT !.code = StatusCode.OK, !.success = TRUE]

\* genericError(err): code, success and payload are assigned, then
\* `err.message` throws.
genericErrorOnNullish(this) ==
    [this EXCEPT !.code = StatusCode.INTERNAL_SERVER_ERROR,
                 !.success = FALSE, !.payload = NULL]

(***************************************************************************)
(* Arguments the request handlers pass.                                    *)
(***************************************************************************)
\* Numbers that are no member of the enum (in and out of the HTTP range).
NonCatalogCodes == {299, 999}

CodeArgs == StatusCodeValues \cup NonCatalogCodes

PayloadArgs == {UNDEFINED, NULL, "<0>", "", "<false>", "<{id:1}>", "<{a:1}>", "<Date(0)>"}

\* Partial<IStatus<T>> objects for successOK; some carry code and success too.
PlainOptions ==
    {<<>>} \cup
    {[message |-> m] : m \in {"", "done"}} \cup
    {[payload |-> p] : p \in {NULL, "<0>", "<{id:1}>"}} \cup
    {[message |-> m, payload |-> p] : m \in {"", "done"}, p \in {NULL, "<{id:1}>"}}

OptionsArgs ==
    PlainOptions \cup
    {[code |-> 404, success |-> FALSE] @@ o : o \in {<<>>, [message |-> "done", payload |-> "<{id:1}>"]}}

\* IHttpError objects: Error with a numeric code.
HttpErrorArgs ==
    {[code |-> c, message |-> m] : c \in {401, 200, 99, 600}, m \in {"", "no token"}}

\* Error objects; one carries a code property of its own.
ErrorArgs ==
    {[message |-> m] : m \in {"", "boom"}} \cup
    {[message |-> m, code |-> 401] : m \in {"", "boom"}}

(***************************************************************************)
(* The handler's steps.  `last` records the most recent call on the        *)
(* instance the handler holds in `status`, or the exception the most       *)
(* recent call raised.                                                     *)
(***************************************************************************)
Init ==
    /\ status = constructor
    /\ last = [op |-> "new", args |-> <<>>]
    /\ edits = <<>>
    /\ heap = <<>>
    /\ held = <<>>
    /\ solo = <<>>

NewStatus ==
    /\ status' = constructor
    /\ last' = [op |-> "new", args |-> <<>>]
    /\ UNCHANGED <<edits, heap, held, solo>>

CallSuccessStatus ==
    \E c \in CodeArgs, p \in PayloadArgs :
        /\ status' = successStatus(status, c, p)
        /\ last' = [op |-> "successStatus", args |-> [code |-> c, payload |-> p]]
        /\ UNCHANGED <<edits, heap, held, solo>>

CallErrorStatus ==
    \E c \in CodeArgs :
        /\ status' = errorStatus(status, c)
        /\ last' = [op |-> "errorStatus", args |-> [code |-> c]]
        /\ UNCHANGED <<edits, heap, held, solo>>

CallSUCCESS ==
    \E c \in CodeArgs, p \in PayloadArgs :
        /\ status' = SUCCESS(c, p)
        /\ last' = [op |-> "SUCCESS", args |-> [code |-> c, payload |-> p]]
        /\ UNCHANGED <<edits, heap, held, solo>>

CallERR ==
    \E c \in CodeArgs :
        /\ status' = ERR(c)
        /\ last' = [op |-> "ERR", args |-> [code |-> c]]
        /\ UNCHANGED <<edits, heap, held, solo>>

CallError ==
    \E err \in HttpErrorArgs :
        /\ status' = error(status, err)
        /\ last' = [op |-> "error", args |-> err]
        /\ UNCHANGED <<edits, heap, held, solo>>

CallSuccessOK ==
    \E options \in OptionsArgs :
        /\ status' = successOK(status, options)
        /\ last' = [op |-> "successOK", args |-> options]
        /\ UNCHANGED <<edits, heap, held, solo>>

CallGenericError ==
    \E err \in ErrorArgs :
        /\ status' = genericError(status, err)
        /\ last' = [op |-> "genericError", args |-> err]
        /\ UNCHANGED <<edits, heap, held, solo>>

CallOnNullish ==
    \E method \in {"error", "successOK", "genericError"}, v \in Nullish :
        /\ status' = CASE method = "error"        -> errorOnNullish(status)
                       [] method = "successOK"    -> successOKOnNullish(status)
                       [] method = "genericError" -> genericErrorOnNullish(status)
        /\ last' = [op |-> "TypeError", args |-> [method |-> method, argument |-> v]]
        /\ UNCHANGED <<edits, heap, held, solo>>

Next ==
    \/ NewStatus
    \/ CallSuccessOK
    \/ CallError
    \/ CallGenericError
    \/ CallSuccessStatus
    \/ CallErrorStatus
    \/ CallSUCCESS
    \/ CallERR
    \/ CallOnNullish

Spec == Init /\ [][Next]_vars

(***************************************************************************)
(* Helpers for stating the properties.                                     *)
(***************************************************************************)
\* Calling the method `call` names on the instance `this`.
Apply(this, call) ==
    CASE call.op = "new"           -> constructor
      [] call.op = "successStatus" -> successStatus(this, call.args.code, call.args.payload)
      [] call.op = "errorStatus"   -> errorStatus(this, call.args.code)
      [] call.op = "SUCCESS"       -> SUCCESS(call.args.code, call.args.payload)
      [] call.op = "ERR"           -> ERR(call.args.code)
      [] call.op = "error"         -> error(this, call.args)
      [] call.op = "successOK"     -> successOK(this, call.args)
      [] call.op = "genericError"  -> genericError(this, call.args)

InstanceOps == {"successStatus", "successOK", "errorStatus", "error", "genericError"}

PopulatingOps == InstanceOps \cup {"SUCCESS", "ERR"}

SuccessOps == {"successStatus", "successOK", "SUCCESS"}

ErrorOps == {"errorStatus", "error", "genericError", "ERR"}

HttpRange == 100..599

(***************************************************************************)
(* C1..C10                                                                  *)
(***************************************************************************)

\* C1: errorStatus(c) with a catalog code c leaves the instance exactly
\* {code: c, success: false, message: StatusMessages[c], payload: null}, from
\* every prior state (the call is enabled in every reachable state), so a
\* payload stored by an earlier success call is cleared.
C1_ErrorStatusExact ==
    (last.op = "errorStatus" /\ last.args.code \in StatusCodeValues) =>
        status = [code    |-> last.args.code,
                  success |-> FALSE,
                  message |-> StatusMessages[last.args.code],
                  payload |-> NULL]

C1_Witness ==
    /\ last.op = "errorStatus"
    /\ last.args.code = StatusCode.NOT_FOUND
    /\ status = [code |-> 404, success |-> FALSE,
                 message |-> "Resource not found.", payload |-> NULL]

\* C2: successStatus(c, p) with a catalog code c and a truthy payload p leaves
\* the instance exactly {code: c, success: true, message: StatusMessages[c],
\* payload: p}, on a fresh instance and from every other prior state.
C2_SuccessStatusExact ==
    (/\ last.op = "successStatus"
     /\ last.args.code \in StatusCodeValues
     /\ ToBoolean(last.args.payload)) =>
        status = [code    |-> last.args.code,
                  success |-> TRUE,
                  message |-> StatusMessages[last.args.code],
                  payload |-> last.args.payload]

C2_Witness ==
    /\ last.op = "successStatus"
    /\ last.args = [code |-> StatusCode.CREATED, payload |-> "<{id:1}>"]
    /\ status = [code |-> 201, success |-> TRUE,
                 message |-> "Resource created successfully.", payload |-> "<{id:1}>"]

\* C3: successOK(options) always sets code=200 and success=true, overwrites
\* message iff options.message is a non-empty string, overwrites payload iff
\* options.payload is truthy, and otherwise leaves the field at its prior
\* value; successOK({}) on a fresh instance gives {200, true, "", null}, and
\* a non-empty message with a truthy payload gives {200, true, m, p}.
C3_SuccessOKStep ==
    LET m == Get(last'.args, "message")
        p == Get(last'.args, "payload")
    IN  last'.op = "successOK" =>
          /\ status'.code = 200
          /\ status'.success = TRUE
          /\ status'.message = IF m \notin {UNDEFINED, ""} THEN m ELSE status.message
          /\ status'.payload = IF ToBoolean(p) THEN p ELSE status.payload
          /\ (status = constructor /\ last'.args = <<>>) =>
                status' = [code |-> 200, success |-> TRUE, message |-> "", payload |-> NULL]
          /\ (m \notin {UNDEFINED, ""} /\ ToBoolean(p)) =>
                status' = [code |-> 200, success |-> TRUE, message |-> m, payload |-> p]

C3_SuccessOKMerge == [][C3_SuccessOKStep]_vars

C3_Witness ==
    /\ last.op = "successOK"
    /\ last.args = <<>>
    /\ status.code = 200
    /\ status.success
    /\ status.message = "Resource not found."
    /\ status.payload = "<{a:1}>"

\* C4: error(e) sets code to e.code verbatim (no range or catalog check),
\* success=false and payload=null from any prior state, sets message to
\* e.message when that is non-empty, and leaves the prior message when it is
\* empty.
C4_ErrorStep ==
    last'.op = "error" =>
        status' = [code    |-> last'.args.code,
                   success |-> FALSE,
                   message |-> IF last'.args.message # ""
                                 THEN last'.args.message ELSE status.message,
                   payload |-> NULL]

C4_ErrorVerbatim == [][C4_ErrorStep]_vars

C4_Witness ==
    /\ last.op = "error"
    /\ last.args = [code |-> 600, message |-> ""]
    /\ status = [code |-> 600, success |-> FALSE,
                 message |-> "Request succeeded.", payload |-> NULL]

\* C5: genericError(err) always ends with code=500, success=false and
\* payload=null, whatever the prior state and whatever err carries, a code
\* property of its own included.
C5_GenericErrorIs500 ==
    last.op = "genericError" =>
        /\ status.code = 500
        /\ status.success = FALSE
        /\ status.payload = NULL

C5_Witness ==
    /\ last.op = "genericError"
    /\ "code" \in DOMAIN last.args
    /\ last.args.code = 401
    /\ status.code = 500
    /\ ~status.success
    /\ status.payload = NULL

\* C6: after genericError(err) the instance's message equals err.message,
\* for every Error err, one with the empty message included, from every
\* prior state.
C6_GenericErrorMessage ==
    last.op = "genericError" => status.message = last.args.message

\* What the call hands to the merge as message, and whether the merge or the
\* call itself writes the payload.
MessageGiven(call) ==
    IF call.op \in {"successStatus", "errorStatus"}
      THEN MessageOf(call.args.code)
      ELSE Get(call.args, "message")

SuppliesMessage(call) == MessageGiven(call) \notin {UNDEFINED, ""}

SuppliesPayload(call) ==
    \/ call.op \in {"errorStatus", "error", "genericError"}
    \/ ToBoolean(Get(call.args, "payload"))

\* C7 as stated: after any sequence of successStatus / successOK /
\* errorStatus / error / genericError calls the instance equals what the
\* last call of the sequence produces on a fresh instance.
C7_LastCallAlone ==
    last.op \in InstanceOps => status = Apply(constructor, last)

\* C7 amended: code and success are decided by the last call alone; message
\* is what the last call produces on a fresh instance when that call supplies
\* a non-empty message, payload likewise when the call is an error operation
\* or supplies a truthy payload; a field the last call does not supply keeps
\* the value the earlier calls left.
C7_LastCallStep ==
    LET fresh == Apply(constructor, last')
    IN  last'.op \in InstanceOps =>
          /\ status'.code = fresh.code
          /\ status'.success = fresh.success
          /\ status'.message = IF SuppliesMessage(last') THEN fresh.message
                                                          ELSE status.message
          /\ status'.payload = IF SuppliesPayload(last') THEN fresh.payload
                                                          ELSE status.payload

C7_LastCallWinsPerField == [][C7_LastCallStep]_vars

C7_Witness ==
    /\ last.op = "successStatus"
    /\ last.args = [code |-> StatusCode.CREATED, payload |-> UNDEFINED]
    /\ status.payload = "<{id:1}>"
    /\ Apply(constructor, last).payload = NULL
    /\ status.code = 201

\* C8 as stated: after any populating operation the instance's code is a
\* valid HTTP status code (an integer within 100-599).
C8_CodeAlwaysValid ==
    last.op \in PopulatingOps => status.code \in HttpRange

\* C8 amended: after successOK and genericError, and after any other
\* populating operation whose caller-supplied code is within 100-599 (every
\* StatusCode member is), the instance's code is within 100-599.
C8_CodeValidWhenGivenValid ==
    (/\ last.op \in PopulatingOps
     /\ \/ last.op \in {"successOK", "genericError"}
        \/ last.args.code \in HttpRange) =>
        status.code \in HttpRange

C8_Witness ==
    /\ last.op = "SUCCESS"
    /\ last.args.code = StatusCode.NETWORK_AUTH_REQUIRED
    /\ status.code = 511

\* C9: after at least one populating operation, success is true iff the most
\* recent one was successStatus, successOK or static SUCCESS, and false iff it
\* was errorStatus, error, genericError or static ERR, whatever code was
\* passed.
C9_SuccessIffSuccessPath ==
    last.op \in PopulatingOps =>
        /\ status.success = TRUE  <=> last.op \in SuccessOps
        /\ status.success = FALSE <=> last.op \in ErrorOps

C9_Witness ==
    /\ last.op = "successStatus"
    /\ last.args.code = StatusCode.INTERNAL_SERVER_ERROR
    /\ status.code = 500
    /\ status.success = TRUE

\* C10: a newly constructed Status is exactly {code: 400, success: false,
\* message: "", payload: null}; an instance no populating operation has been
\* called on never shows success=true or code 200.
C10_FreshIsBadRequest ==
    last.op = "new" =>
        /\ status = [code |-> 400, success |-> FALSE, message |-> "", payload |-> NULL]
        /\ status.success = FALSE
        /\ status.code # 200

C10_Witness ==
    /\ last.op = "new"
    /\ last.args = <<>>
    /\ status.code = 400
    /\ status.payload = NULL

(***************************************************************************)
(* C11..C20                                                                 *)
(***************************************************************************)

\* C11: successStatus(c, p) with an absent or falsy payload p (undefined,
\* null, 0, "", false) leaves payload at the value it held before the call
\* and still sets code=c and success=true, so a payload stored by an earlier
\* success call survives a later successStatus call made without one.
C11_FalsyPayloadStep ==
    (/\ last'.op = "successStatus"
     /\ last'.args.payload \in {UNDEFINED, NULL, "<0>", "", "<false>"}) =>
        /\ status'.payload = status.payload
        /\ status'.code = last'.args.code
        /\ status'.success = TRUE

C11_FalsyPayloadKept == [][C11_FalsyPayloadStep]_vars

C11_Witness ==
    /\ last.op = "successStatus"
    /\ last.args = [code |-> StatusCode.OK, payload |-> "<0>"]
    /\ status.code = 200
    /\ status.success
    /\ status.payload = "<{a:1}>"

\* C12: Status.SUCCESS(c, p) returns an instance field-for-field equal to a
\* fresh Status after successStatus(c, p), and Status.ERR(c) one equal to a
\* fresh Status after errorStatus(c); each call builds a new instance, so the
\* result does not depend on what was called before.
C12_StaticEqualsFresh ==
    /\ last.op = "SUCCESS" =>
          /\ status = successStatus(constructor, last.args.code, last.args.payload)
          /\ status = [code    |-> last.args.code,
                       success |-> TRUE,
                       message |-> IF last.args.code \in StatusCodeValues
                                     THEN StatusMessages[last.args.code] ELSE "",
                       payload |-> IF ToBoolean(last.args.payload)
                                     THEN last.args.payload ELSE NULL]
    /\ last.op = "ERR" =>
          /\ status = errorStatus(constructor, last.args.code)
          /\ status = [code    |-> last.args.code,
                       success |-> FALSE,
                       message |-> IF last.args.code \in StatusCodeValues
                                     THEN StatusMessages[last.args.code] ELSE "",
                       payload |-> NULL]

C12_Witness ==
    /\ last.op = "SUCCESS"
    /\ last.args = [code |-> StatusCode.OK, payload |-> "<{a:1}>"]
    /\ status = [code |-> 200, success |-> TRUE,
                 message |-> "Request succeeded.", payload |-> "<{a:1}>"]

\* C13: every populating operation is idempotent: in the state a call of
\* successStatus, successOK, errorStatus, error or genericError has left,
\* making the same call again with identical arguments changes no field.
C13_Idempotent ==
    last.op \in InstanceOps => Apply(status, last) = status

C13_Witness ==
    /\ last.op = "successOK"
    /\ last.args = [message |-> ""]
    /\ status.message = "boom"
    /\ status.code = 200
    /\ Apply(status, last) = status

\* A catalog is exact when the keys of its message entries are the enum's
\* values, no key is written twice, and no message is empty.
CatalogExact(codes, entries) ==
    /\ {entries[i][1] : i \in 1..Len(entries)} = codes
    /\ \A i, j \in 1..Len(entries) : entries[i][1] = entries[j][1] => i = j
    /\ \A i \in 1..Len(entries) : entries[i][2] # ""

\* C14: every member of StatusCode has exactly one entry in StatusMessages,
\* the entry is a non-empty string, and StatusMessages has no entry for a key
\* outside the enum; for the TypeScript catalog and the compiled one alike,
\* and in every state for the catalog object the operations read.
C14_CatalogTotalAndExact ==
    /\ CatalogExact(StatusCodeValues, StatusMessageEntries)
    /\ DOMAIN StatusMessages = StatusCodeValues
    /\ \A i \in 1..Len(StatusMessageEntries) :
          MessageOf(StatusMessageEntries[i][1]) = StatusMessageEntries[i][2]
    /\ \A c \in StatusCodeValues : MessageOf(c) \notin {UNDEFINED, ""}
    /\ CatalogExact({DistStatusCode[n] : n \in DOMAIN DistStatusCode},
                    DistStatusMessageEntries)
    /\ DistStatusCode = StatusCode
    /\ DistStatusMessageEntries = StatusMessageEntries

C14_Witness ==
    /\ last.op = "errorStatus"
    /\ last.args.code = StatusCode.IM_A_TEAPOT
    /\ status.message = "I'm a teapot."
    /\ status.code = 418

\* C15: errorStatus(c) with a number c that has no catalog entry completes
\* like any other call: it sets code=c, success=false and payload=null and
\* leaves message at the value it had before the call.
C15_LookupMissStep ==
    (last'.op = "errorStatus" /\ last'.args.code \notin StatusCodeValues) =>
        status' = [code    |-> last'.args.code,
                   success |-> FALSE,
                   message |-> status.message,
                   payload |-> NULL]

C15_LookupMissKeepsMessage == [][C15_LookupMissStep]_vars

C15_Witness ==
    /\ last.op = "errorStatus"
    /\ last.args.code = 999
    /\ status = [code |-> 999, success |-> FALSE,
                 message |-> "Resource created successfully.", payload |-> NULL]

\* C16: no operation of the core ever fails: successStatus, successOK,
\* errorStatus, error, genericError, Status.SUCCESS and Status.ERR complete
\* without raising an exception for every argument value, in every state.
C16_NeverThrows ==
    last.op # "TypeError"

C18_ReadmeMembersExposed ==
    \A n \in DOMAIN ReadmeStatusCodes :
        /\ n \in DOMAIN StatusCode
        /\ StatusCode[n] = ReadmeStatusCodes[n]
        /\ n \in DOMAIN DistStatusCode
        /\ DistStatusCode[n] = ReadmeStatusCodes[n]
        /\ (/\ last.op \in {"successStatus", "errorStatus", "SUCCESS", "ERR"}
            /\ last.args.code = StatusCode[n]) =>
                status.code = ReadmeStatusCodes[n]

(***************************************************************************)
(* Interleaved request handlers.  Each handler creates its own Status      *)
(* (`new Status()` or a static factory), calls methods on it, and passes   *)
(* it to res.json.  `heap` holds the live Status objects by identity,      *)
(* `held` the object a handler's `status` constant refers to, and `solo`   *)
(* what the handler's own calls alone produce, applied in order to a       *)
(* Status of its own.                                                      *)
(***************************************************************************)
NumHandlers == 2

Handlers == 1..NumHandlers

Objects == 1..NumHandlers

\* Faulty variant: every `new Status()` yields one shared object.
NewObject_singleton == CHOOSE o \in Objects : \A p \in Objects : o <= p

\* `new Status()` allocates an object distinct from every live one.
NewObject == CHOOSE o \in Objects : o \notin DOMAIN heap /\ \A p \in Objects : p < o => p \in DOMAIN heap

Store(o, value) ==
    [p \in DOMAIN heap \cup {o} |-> IF p = o THEN value ELSE heap[p]]

\* The instance-method calls a handler makes.
HandlerCalls ==
    {[op |-> "successStatus", args |-> [code |-> c, payload |-> p]] :
        c \in {StatusCode.OK, StatusCode.CREATED}, p \in {UNDEFINED, "<{id:1}>"}} \cup
    {[op |-> "errorStatus", args |-> [code |-> c]] :
        c \in {StatusCode.NOT_FOUND, 999}} \cup
    {[op |-> "successOK", args |-> o] :
        o \in {<<>>, [message |-> "done"], [payload |-> "<{a:1}>"]}} \cup
    {[op |-> "error", args |-> [code |-> 401, message |-> "no token"]]} \cup
    {[op |-> "genericError", args |-> [message |-> m]] : m \in {"", "boom"}}

\* The static-factory calls a handler makes.
HandlerFactoryCalls ==
    {[op |-> "SUCCESS", args |-> [code |-> StatusCode.CREATED, payload |-> "<{id:1}>"]],
     [op |-> "ERR", args |-> [code |-> StatusCode.NOT_FOUND]]}

\* const status = new Status();
HandlerNew(h) ==
    /\ h \notin DOMAIN held
    /\ heap' = Store(NewObject, constructor)
    /\ held' = [g \in DOMAIN held \cup {h} |-> IF g = h THEN NewObject ELSE held[g]]
    /\ solo' = [g \in DOMAIN solo \cup {h} |-> IF g = h THEN constructor ELSE solo[g]]
    /\ UNCHANGED <<status, last, edits>>

\* const status = Status.SUCCESS(...) or Status.ERR(...);
HandlerFactory(h) ==
    \E call \in HandlerFactoryCalls :
        /\ h \notin DOMAIN held
        /\ heap' = Store(NewObject, Apply(constructor, call))
        /\ held' = [g \in DOMAIN held \cup {h} |-> IF g = h THEN NewObject ELSE held[g]]
        /\ solo' = [g \in DOMAIN solo \cup {h} |-> IF g = h THEN Apply(constructor, call) ELSE solo[g]]
        /\ UNCHANGED <<status, last, edits>>

\* status.<method>(...): the method writes the fields of `this`.
HandlerCall(h) ==
    \E call \in HandlerCalls :
        /\ h \in DOMAIN held
        /\ heap' = [heap EXCEPT ![held[h]] = Apply(@, call)]
        /\ solo' = [solo EXCEPT ![h] = Apply(@, call)]
        /\ UNCHANGED <<status, last, edits, held>>

\* return res.status(status.code).json(status); the object is dropped.
HandlerRespond(h) ==
    /\ h \in DOMAIN held
    /\ heap' = [p \in DOMAIN heap \ {held[h]} |-> heap[p]]
    /\ held' = [g \in DOMAIN held \ {h} |-> held[g]]
    /\ solo' = [g \in DOMAIN solo \ {h} |-> solo[g]]
    /\ UNCHANGED <<status, last, edits>>

HandlersNext ==
    \E h \in Handlers :
        \/ HandlerNew(h)
        \/ HandlerFactory(h)
        \/ HandlerCall(h)
        \/ HandlerRespond(h)

HandlersSpec == Init /\ [][HandlersNext]_vars

(***************************************************************************)
(* C19                                                                     *)
(***************************************************************************)
\* A step leaves the catalog alone, and leaves every field of the object of
\* a handler that made no call in the step as it was.
C19_IsolatedStep ==
    /\ edits' = edits
    /\ \A h \in DOMAIN held \cap DOMAIN held' :
        (held'[h] = held[h] /\ solo'[h] = solo[h]) => heap'[held'[h]] = heap[held[h]]

\* C19: when several Status instances are populated by interleaved request
\* handlers, each instance's state, up to and at the response, is the state
\* its own operations alone produce in order; no operation on one instance
\* changes a field of another instance (no two handlers hold the same
\* object), and no Status operation changes the StatusMessages catalog.
C19_InstancesIsolated ==
    /\ [](\A h \in DOMAIN held : held[h] \in DOMAIN heap /\ heap[held[h]] = solo[h])
    /\ [](\A g, h \in DOMAIN held : g # h => held[g] # held[h])
    /\ [](edits = <<>>)
    /\ [][C19_IsolatedStep]_vars

\* Two handlers hold populated instances at once, one a success built by two
\* calls (payload from the first, code from the second), one an error.
C19_Witness ==
    \E g, h \in DOMAIN held :
        /\ g # h
        /\ heap[held[g]] = [code |-> 200, success |-> TRUE, message |-> MessageOf(StatusCode.OK), payload |-> "<{a:1}>"]
        /\ heap[held[h]] = [code |-> 404, success |-> FALSE,
                            message |-> MessageOf(StatusCode.NOT_FOUND), payload |-> NULL]

(***************************************************************************)
(* res.json(status): JSON.stringify of the instance, and JSON.parse of the *)
(* text on the receiving side.  JSON text is kept in parsed form: a value  *)
(* is null, a boolean, a number, a string, or an object with members in    *)
(* order.                                                                  *)
(***************************************************************************)
JSONNull == [type |-> "null"]

JSONBoolean(b) == [type |-> "boolean", value |-> b]

JSONNumber(n) == [type |-> "number", value |-> n]

JSONString(s) == [type |-> "string", value |-> s]

JSONObject(members) == [type |-> "object", members |-> members]

\* No JSON text: JSON.stringify(undefined) is undefined, and an object
\* member with such a value is left out.
JSONOmitted == [type |-> "omitted"]

\* JSON.stringify of a message or payload value.  NaN becomes null; a Date
\* becomes the string its toJSON() returns; a string is quoted.
stringifyValue(v) ==
    CASE v = UNDEFINED   -> JSONOmitted
      [] v = NULL        -> JSONNull
      [] v = "<NaN>"     -> JSONNull
      [] v = "<0>"       -> JSONNumber(0)
      [] v = "<false>"   -> JSONBoolean(FALSE)
      [] v = "<{id:1}>"  -> JSONObject(<< <<"id", JSONNumber(1)>> >>)
      [] v = "<{a:1}>"   -> JSONObject(<< <<"a", JSONNumber(1)>> >>)
      [] v = "<Date(0)>" -> JSONString("1970-01-01T00:00:00.000Z")
      [] OTHER           -> JSONString(v)

\* JSON.parse of the text of a message or payload value.
parseValue(j) ==
    CASE j.type = "null"    -> NULL
      [] j.type = "boolean" -> IF j.value THEN "<true>" ELSE "<false>"
      [] j.type = "number"  -> IF j.value = 0 THEN "<0>" ELSE "<number>"
      [] j.type = "string"  -> j.value
      [] j.type = "object"  ->
            IF j.members = << <<"id", JSONNumber(1)>> >> THEN "<{id:1}>"
            ELSE IF j.members = << <<"a", JSONNumber(1)>> >> THEN "<{a:1}>"
            ELSE "<object>"

\* JSON.stringify(status): the own properties in the order the constructor
\* assigns them, without the members that have no JSON text.
stringify(this) ==
    SelectSeq(<< <<"code", JSONNumber(this.code)>>,
                 <<"success", JSONBoolean(this.success)>>,
                 <<"message", stringifyValue(this.message)>>,
                 <<"payload", stringifyValue(this.payload)>> >>,
              LAMBDA member : member[2] # JSONOmitted)

\* JSON.parse(text): an object with one property per member of the text.
parse(text) ==
    [k \in {text[i][1] : i \in DOMAIN text} |->
        LET j == (CHOOSE i \in DOMAIN text : text[i][1] = k)
            v == text[j][2]
        IN  IF k \in {"code", "success"} THEN v.value ELSE parseValue(v)]

RoundTrip(this) == parse(stringify(this))

\* The values JSON cannot denote: their text, if any, parses to another value.
NonJSONValues == {UNDEFINED, "<NaN>", "<Date(0)>"}

(***************************************************************************)
(* C20                                                                     *)
(***************************************************************************)
\* C20 (as stated): for every state reachable by populating operations,
\* serializing the instance to JSON and parsing it back yields an object
\* with the same four fields code, success, message, payload holding the
\* same values.
C20_RoundTrip ==
    last.op \in PopulatingOps => RoundTrip(status) = status

\* C20 (amended): for every state reachable by populating operations whose
\* payload is a value JSON can denote (null, a boolean, a finite number, a
\* string, or an array or plain object of such values), serializing the
\* instance to JSON and parsing it back yields an object with the same four
\* fields code, success, message, payload holding the same values.
C20_RoundTripOfJSONPayload ==
    (last.op \in PopulatingOps /\ status.payload \notin NonJSONValues) =>
        /\ DOMAIN RoundTrip(status) = {"code", "success", "message", "payload"}
        /\ RoundTrip(status) = status

\* A populated instance with an object payload has gone through the wire.
C20_Witness ==
    /\ last.op \in PopulatingOps
    /\ status.payload = "<{id:1}>"
    /\ status.code = StatusCode.CREATED
    /\ Len(stringify(status)) = 4
    /\ RoundTrip(status) = status

(***************************************************************************)
(* C21                                                                     *)
(***************************************************************************)
\* C21: in every state reachable from a fresh instance through the public
\* operations, success=false implies payload=null: no sequence of calls
\* leaves an error-flagged instance still carrying a payload from an
\* earlier success call.
C21_ErrorCarriesNoPayload ==
    status.success = FALSE => status.payload = NULL

\* An error call with an empty message has followed successOK({message:
\* "done", ...}): the message of the success call is still there, the
\* instance is error-flagged and the payload is null.
C21_Witness ==
    /\ last.op \in {"genericError", "error"}
    /\ last.args.message = ""
    /\ status.message = "done"
    /\ status.success = FALSE
    /\ status.payload = NULL

(***************************************************************************)
(* C22                                                                     *)
(***************************************************************************)
\* The properties of options that set() destructures.
MergedFields(options) ==
    [k \in DOMAIN options \cap {"message", "payload"} |-> options[k]]

C22_IgnoresCodeAndSuccessStep ==
    last'.op = "successOK" =>
        /\ status'.code = StatusCode.OK
        /\ status'.success = TRUE
        /\ status' = successOK(status, MergedFields(last'.args))
        /\ status'.message \in {status.message, Get(last'.args, "message")}
        /\ status'.payload \in {status.payload, Get(last'.args, "payload")}

\* C22: successOK(options) ignores any code and success fields carried by
\* options: for every options value, including one with code other than 200
\* or success=false, the instance ends with code=200 and success=true, in
\* the state the call without those two fields produces, and only message
\* and payload can be taken from options.
C22_IgnoresCodeAndSuccess == [][C22_IgnoresCodeAndSuccessStep]_vars

\* successOK was called with options carrying code 404 and success=false,
\* and a message and payload that were taken.
C22_Witness ==
    /\ last.op = "successOK"
    /\ {"code", "success"} \subseteq DOMAIN last.args
    /\ last.args.code = 404
    /\ last.args.success = FALSE
    /\ status = [code |-> 200, success |-> TRUE, message |-> "done", payload |-> "<{id:1}>"]

(***************************************************************************)
(* An instance populated only through successStatus and errorStatus, with  *)
(* members of the StatusCode enum.                                         *)
(***************************************************************************)
CatalogSuccessStatus ==
    \E c \in StatusCodeValues, p \in PayloadArgs :
        /\ status' = successStatus(status, c, p)
        /\ last' = [op |-> "successStatus", args |-> [code |-> c, payload |-> p]]
        /\ UNCHANGED <<edits, heap, held, solo>>

CatalogErrorStatus ==
    \E c \in StatusCodeValues :
        /\ status' = errorStatus(status, c)
        /\ last' = [op |-> "errorStatus", args |-> [code |-> c]]
        /\ UNCHANGED <<edits, heap, held, solo>>

CatalogNext ==
    \/ CatalogSuccessStatus
    \/ CatalogErrorStatus

CatalogSpec == Init /\ [][CatalogNext]_vars

(***************************************************************************)
(* C23                                                                     *)
(***************************************************************************)
\* C23: if an instance is populated only through successStatus and
\* errorStatus with catalog codes (any number of calls, in any order), then
\* in every state after the first call message equals StatusMessages[code]:
\* the message matches the current code, never one left from an earlier call.
C23_MessageMatchesCode ==
    last.op # "new" =>
        /\ status.code \in DOMAIN StatusMessages
        /\ status.message = StatusMessages[status.code]

\* A second call has changed the code: the payload is the one an earlier
\* successStatus stored, and the message is the one of the current code.
C23_Witness ==
    /\ last.op = "successStatus"
    /\ last.args.code = StatusCode.ACCEPTED
    /\ last.args.payload = UNDEFINED
    /\ status.payload = "<{id:1}>"
    /\ status.message = StatusMessages[StatusCode.ACCEPTED]

====
